---- MODULE Spec2Model ----
(***************************************************************************)
(* Model of fetching/fetch-article.py: the Twitter search pagination       *)
(* producer thread, the bounded queue of article fetch futures, the        *)
(* generator that drains it (TwitterSearchQuery.paged_fetch_the_news),     *)
(* the article validity checks (NewsArticle.from_response) and the link    *)
(* resolution (LinkFromArticle.resolve_from).                              *)
(*                                                                         *)
(* Python strings that the code inspects by prefix, substring or path      *)
(* arithmetic are tuples of one-character strings.  Strings the code only  *)
(* tests for emptiness or equality are TLA+ strings.                       *)
(***************************************************************************)
EXTENDS Integers, Sequences, FiniteSets, TLC

\* ------------------------------------------------------------------ bounds
\* Number of results pages the producer may fetch (the walk is unbounded).
MaxPages == 2
\* Largest number of <a> elements inside the tweets of one results page.
MaxLinks == 2
\* queue.Queue(maxsize=50) at line 359, scaled down.
maxsize == 2
\* Number of link fetches submitted over the whole run (unbounded in the code).
MaxFutures == 4

Ids == 1..MaxFutures

\* ------------------------------------------------------- string primitives
\* str.startswith
StartsWith(s, p) == Len(s) >= Len(p) /\ SubSeq(s, 1, Len(p)) = p

\* str.startswith used where the code uses `in`
InAtStart(sub, s) == Len(s) >= Len(sub) /\ SubSeq(s, 1, Len(sub)) = sub

\* the `in` operator on two str
In(sub, s) == \E i \in 0..(Len(s) - Len(sub)) : SubSeq(s, i + 1, i + Len(sub)) = sub

Range(s) == {s[i] : i \in 1..Len(s)}

SLASH == <<"/">>

TWITTER_PLAINTEXT_SEARCH_BASE_URL ==
  <<"h","t","t","p","s",":","/","/","m","o","b","i","l","e",".",
    "t","w","i","t","t","e","r",".","c","o","m">>

SEARCH_PREFIX == <<"/","s","e","a","r","c","h","?","q","=">>

TWEET_SHORTENED_LINK_BASE == <<"h","t","t","p","s",":","/","/","t",".","c","o","/">>

TWITTER_DOMAIN == <<"t","w","i","t","t","e","r",".","c","o","m">>

HTML_PREFIX == <<"t","e","x","t","/","h","t","m","l">>

PAGE_NOT_FOUND_TITLE_MARKER == "Page Not Found"

\* Python None, for the Optional values the code only tests for truth.
None == <<>>

\* ------------------------------------------------------------ results pages
\* _as_initial_query with one keyword k: '/search?q=(k)'
InitialQuery == SEARCH_PREFIX \o <<"(","k",")">>

\* href of the 'w-button-more' link: absent, well formed, or something else
NoButton == <<>>
NextHrefs == {NoButton,
              SEARCH_PREFIX \o <<"n">>,
              <<"/","l","o","g","i","n">>}

\* href values of the <a> elements found inside tweets
TweetHrefs == {<<"/","u","s","e","r">>,
               TWEET_SHORTENED_LINK_BASE \o <<"a">>,
               <<"h","t","t","p",":","/","/","e",".","x","/">>}

SeqsUpTo(S, n) == UNION {[1..k -> S] : k \in 0..n}

\* What the GET of a results page can produce: a transport failure, or a
\* document with a next-page button href and the tweets' hrefs.
Pages == {[fetched |-> FALSE, next |-> NoButton, hrefs |-> <<>>]} \cup
         [fetched : {TRUE}, next : NextHrefs, hrefs : SeqsUpTo(TweetHrefs, MaxLinks)]

\* TwitterSearchUrl.from_relative_path
from_relative_path(path) ==
  IF StartsWith(path, SEARCH_PREFIX)
    THEN [err |-> "none", url |-> TWITTER_PLAINTEXT_SEARCH_BASE_URL \o path]
    ELSE [err |-> "AssertionError", url |-> <<>>]

\* TwitterSearchCursor._extract_next_search_page_url
extract_next_search_page_url(page) ==
  IF page.next = NoButton
    THEN [err |-> "TypeError", url |-> <<>>]
    ELSE from_relative_path(page.next)

\* _extract_t_co_urls with a `continue` for every href that is not a
\* t.co link, in place of the assertion
RECURSIVE extract_t_co_urls_skip(_)
extract_t_co_urls_skip(hrefs) ==
  IF hrefs = <<>> THEN [err |-> "none", urls |-> <<>>]
  ELSE LET url == Head(hrefs)
           rest == extract_t_co_urls_skip(Tail(hrefs))
       IN IF StartsWith(url, TWEET_SHORTENED_LINK_BASE)
            THEN [err |-> "none", urls |-> <<url>> \o rest.urls]
            ELSE rest

\* TwitterSearchCursor._extract_t_co_urls, consumed by list(): the urls kept,
\* or the assertion of TwitterSearchShortenedUrl.__post_init__
RECURSIVE extract_t_co_urls(_)
extract_t_co_urls(hrefs) ==
  IF hrefs = <<>> THEN [err |-> "none", urls |-> <<>>]
  ELSE LET url == Head(hrefs) IN
       IF StartsWith(url, SLASH) THEN extract_t_co_urls(Tail(hrefs))
       ELSE IF ~StartsWith(url, TWEET_SHORTENED_LINK_BASE)
         THEN [err |-> "AssertionError", urls |-> <<>>]
       ELSE LET rest == extract_t_co_urls(Tail(hrefs)) IN
            IF rest.err # "none" THEN rest
            ELSE [err |-> "none", urls |-> <<url>> \o rest.urls]

\* from_base_url with lines 328 and 330 exchanged: links before locator
from_base_url_LinksFirst(page) ==
  IF ~page.fetched
    THEN [err |-> "ConnectionError", next_url |-> <<>>, t_co_urls |-> <<>>]
  ELSE LET t_co == extract_t_co_urls(page.hrefs) IN
       IF t_co.err # "none"
         THEN [err |-> t_co.err, next_url |-> <<>>, t_co_urls |-> <<>>]
       ELSE LET next_url == extract_next_search_page_url(page) IN
            IF next_url.err # "none"
              THEN [err |-> next_url.err, next_url |-> <<>>, t_co_urls |-> <<>>]
            ELSE [err |-> "none", next_url |-> next_url.url, t_co_urls |-> t_co.urls]

\* TwitterSearchCursor.from_base_url
from_base_url(page) ==
  IF ~page.fetched
    THEN [err |-> "ConnectionError", next_url |-> <<>>, t_co_urls |-> <<>>]
  ELSE LET next_url == extract_next_search_page_url(page) IN
       IF next_url.err # "none"
         THEN [err |-> next_url.err, next_url |-> <<>>, t_co_urls |-> <<>>]
       ELSE LET t_co == extract_t_co_urls(page.hrefs) IN
            IF t_co.err # "none"
              THEN [err |-> t_co.err, next_url |-> <<>>, t_co_urls |-> <<>>]
            ELSE [err |-> "none", next_url |-> next_url.url, t_co_urls |-> t_co.urls]

\* scramble_the_jets leaving out the last url of the list
scramble_all_but_last(urls, n) == [k \in 1..(Len(urls) - 1) |-> n + k]

\* ExternalUrlFetchSet.scramble_the_jets: one future per url, in order.
\* Futures are numbered in submission order; n were submitted before.
scramble_the_jets(urls, n) == [k \in 1..Len(urls) |-> n + k]

\* a queue.Queue() built without maxsize
QueueNeverFull(q) == FALSE

\* Queue.put blocks while the queue holds maxsize items
QueueFull(q) == Len(q) >= maxsize


\* ------------------------------------------------------- fetch outcomes
\* What fetch_future.result() can deliver: requests.exceptions.SSLError,
\* another transport exception, or a Response.  A Response carries its
\* final url (after redirects), the Content-Type header (None: no such
\* header) and what newspaper.Article extracts from its content.
\* published_time is meta_data['article']['published_time']: absent, a
\* date string, or a string dateutil cannot parse.
SSLError == [kind |-> "SSLError"]
ConnectionError == [kind |-> "ConnectionError"]
NoResult == [kind |-> "none"]

HTML == HTML_PREFIX \o <<";"," ","c","h","a","r","s","e","t","=","u","t","f","-","8">>
PDF == <<"a","p","p","l","i","c","a","t","i","o","n","/","p","d","f">>

HTTPS == <<"h","t","t","p","s">>
HTTP == <<"h","t","t","p">>

Resp(host, path, ctype, title, authors, date, ptime, text) ==
  [kind |-> "Response", scheme |-> HTTPS, host |-> host, path |-> path,
   ctype |-> ctype, title |-> title, authors |-> authors,
   publish_date |-> date, published_time |-> ptime, text |-> text]

NEWS_HOST == <<"n",".","i","o">>
MOBILE_HOST == <<"m","o","b","i","l","e",".">> \o TWITTER_DOMAIN

\* Response.url
Url(r) == r.scheme \o <<":","/","/">> \o r.host \o r.path

GoodArticle(host, path) == Resp(host, path, HTML, "T", <<"a">>, 1, "", "body")

\* The results the drainer is exercised with.
Results ==
  {SSLError, ConnectionError,
   GoodArticle(NEWS_HOST, <<"/","a">>),
   GoodArticle(TWITTER_DOMAIN, <<"/","x","y","z">>),
   GoodArticle(MOBILE_HOST, <<"/","x">>),
   GoodArticle(NEWS_HOST, <<"/">> \o TWITTER_DOMAIN),
   Resp(NEWS_HOST, <<"/","a">>, PDF, "", <<>>, 0, "", ""),
   Resp(NEWS_HOST, <<"/","a">>, None, "T", <<"a">>, 1, "", "body")}

\* dateutil.parser.parse
DateParse(s) ==
  IF s = "2013-12-30T12:00:00Z" THEN [err |-> "none", date |-> 2]
  ELSE [err |-> "ParserError", date |-> 0]

\* NewsArticle.from_response.  A date of 0 is a missing publish date.
from_response(resp) ==
  IF resp.ctype = None THEN [tag |-> "raise", exc |-> "KeyError"]
  ELSE IF ~StartsWith(resp.ctype, HTML_PREFIX) THEN [tag |-> "None"]
  ELSE IF resp.title = "" \/ resp.title = PAGE_NOT_FOUND_TITLE_MARKER THEN [tag |-> "None"]
  ELSE IF resp.authors = <<>> THEN [tag |-> "None"]
  ELSE LET parsed == DateParse(resp.published_time)
           raises == resp.published_time # "" /\ parsed.err # "none"
           most_specific_possible_date ==
             IF resp.published_time # "" THEN parsed.date ELSE resp.publish_date
       IN IF raises THEN [tag |-> "raise", exc |-> parsed.err]
          ELSE IF most_specific_possible_date = 0 THEN [tag |-> "None"]
          ELSE IF resp.text = "" THEN [tag |-> "None"]
          ELSE [tag |-> "NewsArticle", url |-> Url(resp), title |-> resp.title,
                authors |-> resp.authors,
                publish_date |-> most_specific_possible_date, text |-> resp.text]

\* the loop body with a bare `except:` in place of the SSLError clause
DrainOne_CatchAll(r) ==
  IF r.kind # "Response" THEN "skip_ssl"
  ELSE IF In(TWITTER_DOMAIN, Url(r)) THEN "skip_domain"
  ELSE LET article == from_response(r) IN
       IF article.tag = "raise" THEN "raise_assemble"
       ELSE IF article.tag = "None" THEN "rejected"
       ELSE "yield"

\* the loop body without the `except requests.exceptions.SSLError` clause
DrainOne_NoSSLCatch(r) ==
  IF r.kind # "Response" THEN "raise_transport"
  ELSE IF In(TWITTER_DOMAIN, Url(r)) THEN "skip_domain"
  ELSE LET article == from_response(r) IN
       IF article.tag = "raise" THEN "raise_assemble"
       ELSE IF article.tag = "None" THEN "rejected"
       ELSE "yield"

\* The body of the `for fetch_future in as_completed(...)` loop for one
\* future whose result is r: what the drainer does with it.
DrainOne(r) ==
  IF r.kind = "SSLError" THEN "skip_ssl"
  ELSE IF r.kind # "Response" THEN "raise_transport"
  ELSE IF In(TWITTER_DOMAIN, Url(r)) THEN "skip_domain"
  ELSE LET article == from_response(r) IN
       IF article.tag = "raise" THEN "raise_assemble"
       ELSE IF article.tag = "None" THEN "rejected"
       ELSE "yield"

\* the loop without the blocking get() of line 381
AfterDrain_NoBlockingGet(new_fetch_futures) == "as_completed"

\* `if not new_fetch_futures:` after the non-blocking drain
AfterDrain(new_fetch_futures) ==
  IF new_fetch_futures = <<>> THEN "get" ELSE "as_completed"


\* ------------------------------------------------------- link resolution
\* re.match('https?', scheme): matches at the start of the string only,
\* 'http' followed by an optional 's'; what follows is not examined.
re_match_https(scheme) ==
  /\ StartsWith(scheme, HTTP)
  /\ \/ StartsWith(scheme, HTTP \o <<"s">>)
     \/ TRUE

\* str.rfind('/') + 1
LastSlash(p) ==
  IF \E i \in 1..Len(p) : p[i] = "/"
    THEN CHOOSE i \in 1..Len(p) : p[i] = "/" /\ \A j \in (i + 1)..Len(p) : p[j] # "/"
    ELSE 0

\* str.rstrip('/')
RStripSlash(p) ==
  IF \E i \in 1..Len(p) : p[i] # "/"
    THEN SubSeq(p, 1, CHOOSE i \in 1..Len(p) :
                        p[i] # "/" /\ \A j \in (i + 1)..Len(p) : p[j] = "/")
    ELSE <<>>

\* os.path.dirname
dirname(p) ==
  LET head == SubSeq(p, 1, LastSlash(p)) IN
  IF head # <<>> /\ \E i \in 1..Len(head) : head[i] # "/"
    THEN RStripSlash(head)
    ELSE head

\* os.path.join of two components
join(a, b) ==
  IF StartsWith(b, SLASH) THEN b
  ELSE IF a = <<>> \/ a[Len(a)] = "/" THEN a \o b
  ELSE a \o SLASH \o b

\* ResolvedSubLink(...) with the assertion of its __post_init__
ResolvedSubLink(scheme, netloc, path) ==
  IF scheme # <<>> /\ netloc # <<>> /\ StartsWith(path, SLASH)
    THEN [tag |-> "ResolvedSubLink", scheme |-> scheme, netloc |-> netloc, path |-> path]
    ELSE [tag |-> "raise", exc |-> "AssertionError"]

\* LinkFromArticle.resolve_from
resolve_from(self, base) ==
  LET scheme == IF self.scheme # None THEN self.scheme
                ELSE IF self.netloc = None THEN base.scheme
                ELSE HTTPS
  IN
  IF ~re_match_https(scheme) THEN [tag |-> "None"]
  ELSE IF self.netloc # None
    THEN IF self.path # None
           THEN IF StartsWith(self.path, SLASH)
                  THEN ResolvedSubLink(scheme, self.netloc, self.path)
                  ELSE [tag |-> "raise", exc |-> "AssertionError"]
           ELSE ResolvedSubLink(scheme, self.netloc, SLASH)
    ELSE IF self.path = None THEN [tag |-> "None"]
         ELSE IF StartsWith(self.path, SLASH)
           THEN ResolvedSubLink(scheme, base.netloc, self.path)
         ELSE LET base_dir == dirname(base.path)
                  path_from_root == join(base_dir, self.path)
              IN ResolvedSubLink(scheme, base.netloc, SLASH \o path_from_root)

\* The links LinkFromArticle.parse_url can return: a component is None or
\* a non-empty string, not all three are None, and a link with a netloc
\* has a path that is empty or starts with '/'.
LinkSchemes == {None, HTTP, HTTPS, HTTP \o <<"x">>, HTTPS \o <<"+","x">>,
                <<"m","a","i","l","t","o">>, <<"h","t","t">>}
LinkNetlocs == {None, <<"h","2">>}
LinkPaths == {None, <<"c">>, <<"/","a","/","b">>, <<".",".","/","x">>, <<"c","/","d">>}

Links == {l \in [scheme : LinkSchemes, netloc : LinkNetlocs, path : LinkPaths] :
            /\ ~(l.scheme = None /\ l.netloc = None /\ l.path = None)
            /\ l.netloc # None => (l.path = None \/ StartsWith(l.path, SLASH))}

\* urlparse(article.url): the url of a fetched response
Bases == [scheme : {HTTP, HTTPS}, netloc : {<<"h">>},
          path : {<<>>, <<"/">>, <<"/","q">>, <<"/","p","/","q">>, <<"/","p","/">>}]

\* The responses from_response is exercised with.
AllResponses ==
  [kind : {"Response"}, scheme : {HTTPS}, host : {NEWS_HOST}, path : {<<"/","a">>},
   ctype : {None, HTML, HTML_PREFIX, PDF},
   title : {"", PAGE_NOT_FOUND_TITLE_MARKER, "T"},
   authors : {<<>>, <<"a">>},
   publish_date : {0, 1},
   published_time : {"", "2013-12-30T12:00:00Z", "soon"},
   text : {"", "body"}]

\* ------------------------------------------------------------------ state
VARIABLES
  ppc,        \* producer thread (cursor_fn): "next_cursor", "put" or "dead"
  perr,       \* the exception that ended the producer thread, or "none"
  cur_page,   \* _paged_fetch_cursors: url of the next results page
  pageNo,     \* results pages fetched so far
  discovered, \* external links found on the pages that produced a cursor
  toPush,     \* futures of the current cursor not yet put on the queue
  queue,      \* article_fetch_futures
  st,         \* per future: "none", "pending", "done" or "consumed"
  submits,    \* per future: how many times a GET was submitted for it
  pushes,     \* per future: how many times it was put on the queue
  doneOrder,  \* futures that completed and were not yet consumed, in completion order
  cpc,        \* generator: "drain", "get", "as_completed", "yielded", "raised"
  batch,      \* new_fetch_futures
  bpops,      \* blocking get() calls made in the current loop iteration
  ready,      \* as_completed: futures already finished when it was called
  waitq,      \* as_completed: waiter.finished_futures, in completion order
  last,       \* the future the drainer handled last, its result and what was done
  rlink, rbase, rres,  \* resolve_from: the link, the base url and the result
  aresp, ares,         \* from_response: the response and the result
  epage, ecursor, esubmitted  \* from_base_url: the page, the cursor or the
                              \* exception, and the urls a GET was submitted for

pipeVars == <<ppc, perr, cur_page, pageNo, discovered, toPush, queue, st, submits,
              pushes, doneOrder, cpc, batch, bpops, ready, waitq, last>>
resolveVars == <<rlink, rbase, rres>>
assembleVars == <<aresp, ares>>
cursorVars == <<epage, ecursor, esubmitted>>
vars == <<pipeVars, resolveVars, assembleVars, cursorVars>>

Unset == [tag |-> "unset"]

IdleResolve == rlink = Unset /\ rbase = Unset /\ rres = Unset
IdleAssemble == aresp = NoResult /\ ares = Unset
IdleCursor == epage = Unset /\ ecursor = Unset /\ esubmitted = <<>>

\* The state when paged_fetch_the_news has started cursor_thread and
\* enters its loop.
PipeInit ==
  /\ ppc = "next_cursor"
  /\ perr = from_relative_path(InitialQuery).err
  /\ cur_page = from_relative_path(InitialQuery).url
  /\ pageNo = 0
  /\ discovered = 0
  /\ toPush = <<>>
  /\ queue = <<>>
  /\ st = [id \in Ids |-> "none"]
  /\ submits = [id \in Ids |-> 0]
  /\ pushes = [id \in Ids |-> 0]
  /\ doneOrder = <<>>
  /\ cpc = "drain"
  /\ batch = <<>>
  /\ bpops = 0
  /\ ready = {}
  /\ waitq = <<>>
  /\ last = [id |-> 0, res |-> NoResult, verdict |-> "none"]

Init == PipeInit /\ IdleResolve /\ IdleAssemble /\ IdleCursor

Count(s, x) == Cardinality({i \in 1..Len(s) : s[i] = x})

Remove(s, x) == SelectSeq(s, LAMBDA y : y # x)

\* ------------------------------------------------------- producer thread
\* cursor_fn resumes _paged_fetch_cursors: from_base_url(cur_page) fetches
\* and parses one results page.  An exception ends the thread.  Otherwise
\* the cursor is yielded and scramble_the_jets submits every fetch of it.
\* cur_page = cursor.next_url (line 351) runs when the generator is
\* resumed after the puts; nothing reads cur_page in between.
\* The MaxPages and MaxFutures guards cap the unbounded walk.
P_FetchPage ==
  /\ ppc = "next_cursor"
  /\ pageNo < MaxPages
  /\ \E page \in Pages :
       LET cursor == from_base_url(page) IN
       /\ discovered + Len(cursor.t_co_urls) <= MaxFutures
       /\ IF cursor.err # "none"
         THEN /\ ppc' = "dead"
              /\ perr' = cursor.err
              /\ UNCHANGED <<cur_page, discovered, toPush, st, submits>>
         ELSE LET futures == scramble_the_jets(cursor.t_co_urls, discovered) IN
              /\ ppc' = IF futures = <<>> THEN "next_cursor" ELSE "put"
              /\ cur_page' = cursor.next_url
              /\ discovered' = discovered + Len(cursor.t_co_urls)
              /\ toPush' = futures
              /\ st' = [id \in Ids |-> IF id \in Range(futures) THEN "pending" ELSE st[id]]
              /\ submits' = [id \in Ids |-> submits[id] + Count(futures, id)]
              /\ UNCHANGED perr
  /\ pageNo' = pageNo + 1
  /\ UNCHANGED <<queue, pushes, doneOrder, cpc, batch, bpops, ready, waitq, last>>
  /\ UNCHANGED <<resolveVars, assembleVars, cursorVars>>

\* cursor_fn with a `break` after the first put of a cursor: the producer
\* goes on to the next results page with futures of this one left over
P_Put_ThenNextPage ==
  /\ ppc = "put"
  /\ toPush # <<>>
  /\ Len(queue) < maxsize
  /\ queue' = Append(queue, Head(toPush))
  /\ pushes' = [pushes EXCEPT ![Head(toPush)] = @ + 1]
  /\ toPush' = Tail(toPush)
  /\ ppc' = "next_cursor"
  /\ UNCHANGED <<perr, cur_page, pageNo, discovered, st, submits, doneOrder,
                 cpc, batch, bpops, ready, waitq, last>>
  /\ UNCHANGED <<resolveVars, assembleVars, cursorVars>>

\* article_fetch_futures.put(fetch_future), enabled when the queue has room
P_Put ==
  /\ ppc = "put"
  /\ toPush # <<>>
  /\ ~QueueFull(queue)
  /\ queue' = Append(queue, Head(toPush))
  /\ pushes' = [pushes EXCEPT ![Head(toPush)] = @ + 1]
  /\ toPush' = Tail(toPush)
  /\ ppc' = IF Tail(toPush) = <<>> THEN "next_cursor" ELSE "put"
  /\ UNCHANGED <<perr, cur_page, pageNo, discovered, st, submits, doneOrder,
                 cpc, batch, bpops, ready, waitq, last>>
  /\ UNCHANGED <<resolveVars, assembleVars, cursorVars>>

Producer == P_FetchPage \/ P_Put

\* ------------------------------------------------------ executor threads
\* A submitted GET finishes (with a response or an exception).  A future
\* the generator is waiting on notifies the as_completed waiter.
\* The executor's max_workers=10 (line 290) is above MaxFutures, so every
\* submitted fetch can run at once and the pool never makes one wait.
\* No thread reads a future's outcome before fetch_future.result() at
\* line 385, so the outcome is drawn there (C_Process), not here.
F_Complete ==
  \E id \in Ids :
    /\ st[id] = "pending"
    /\ st' = [st EXCEPT ![id] = "done"]
    /\ doneOrder' = Append(doneOrder, id)
    /\ waitq' = IF cpc \in {"as_completed", "yielded"} /\ id \in Range(batch)
                  THEN Append(waitq, id) ELSE waitq
    /\ UNCHANGED <<ppc, perr, cur_page, pageNo, discovered, toPush, queue, submits,
                   pushes, cpc, batch, bpops, ready, last>>
    /\ UNCHANGED <<resolveVars, assembleVars, cursorVars>>

\* --------------------------------------------------- generator (consumer)
\* as_completed(new_fetch_futures) starts: snapshot of the finished futures
Finished(fs) == {id \in Range(fs) : st[id] = "done"}

\* article_fetch_futures.get(block=False) returned a future
C_GetNoWait ==
  /\ cpc = "drain"
  /\ queue # <<>>
  /\ batch' = Append(batch, Head(queue))
  /\ queue' = Tail(queue)
  /\ UNCHANGED <<ppc, perr, cur_page, pageNo, discovered, toPush, st, submits, pushes,
                 doneOrder, cpc, bpops, ready, waitq, last>>
  /\ UNCHANGED <<resolveVars, assembleVars, cursorVars>>

\* article_fetch_futures.get(block=False) raised queue.Empty
C_Empty ==
  /\ cpc = "drain"
  /\ queue = <<>>
  /\ cpc' = AfterDrain(batch)
  /\ ready' = IF AfterDrain(batch) = "as_completed" THEN Finished(batch) ELSE ready
  /\ waitq' = <<>>
  /\ UNCHANGED <<ppc, perr, cur_page, pageNo, discovered, toPush, queue, st, submits,
                 pushes, doneOrder, batch, bpops, last>>
  /\ UNCHANGED <<resolveVars, assembleVars, cursorVars>>

\* article_fetch_futures.get() returns once the queue is not empty
C_GetBlocking ==
  /\ cpc = "get"
  /\ queue # <<>>
  /\ batch' = Append(batch, Head(queue))
  /\ queue' = Tail(queue)
  /\ bpops' = bpops + 1
  /\ cpc' = "as_completed"
  /\ ready' = Finished(Append(batch, Head(queue)))
  /\ waitq' = <<>>
  /\ UNCHANGED <<ppc, perr, cur_page, pageNo, discovered, toPush, st, submits, pushes,
                 doneOrder, last>>
  /\ UNCHANGED <<resolveVars, assembleVars, cursorVars>>

\* as_completed without finished.reverse(): the waiter's list is popped
\* from its end, newest completion first
NextCompleted_NoReverse == IF ready # {} THEN ready
                           ELSE IF waitq # <<>> THEN {waitq[Len(waitq)]} ELSE {}

\* The future as_completed hands out next: any of those finished when it
\* was called, then the others in the order they notified the waiter.
NextCompleted == IF ready # {} THEN ready
                 ELSE IF waitq # <<>> THEN {Head(waitq)} ELSE {}

\* One pass of the for loop body over a completed future.
C_Process ==
  /\ cpc = "as_completed"
  /\ \E id \in NextCompleted : \E r \in Results :
       /\ last' = [id |-> id, res |-> r, verdict |-> DrainOne(r)]
       /\ cpc' = CASE DrainOne(r) = "yield" -> "yielded"
                   [] DrainOne(r) \in {"raise_transport", "raise_assemble"} -> "raised"
                   [] OTHER -> "as_completed"
       /\ st' = [st EXCEPT ![id] = "consumed"]
       /\ ready' = ready \ {id}
       /\ waitq' = IF ready # {} THEN waitq ELSE Tail(waitq)
       /\ doneOrder' = Remove(doneOrder, id)
  /\ UNCHANGED <<ppc, perr, cur_page, pageNo, discovered, toPush, queue, submits,
                 pushes, batch, bpops>>
  /\ UNCHANGED <<resolveVars, assembleVars, cursorVars>>

\* The caller asks for the next article: the generator resumes after yield
C_Resume ==
  /\ cpc = "yielded"
  /\ cpc' = "as_completed"
  /\ UNCHANGED <<ppc, perr, cur_page, pageNo, discovered, toPush, queue, st, submits,
                 pushes, doneOrder, batch, bpops, ready, waitq, last>>
  /\ UNCHANGED <<resolveVars, assembleVars, cursorVars>>

\* wait(..., return_when=FIRST_COMPLETED) in place of as_completed: the
\* loop goes back to the queue once one future of the batch was handled
C_BatchDone_AfterFirst ==
  /\ cpc = "as_completed"
  /\ \E id \in Range(batch) : st[id] = "consumed"
  /\ cpc' = "drain"
  /\ batch' = <<>>
  /\ bpops' = 0
  /\ UNCHANGED <<ppc, perr, cur_page, pageNo, discovered, toPush, queue, st, submits,
                 pushes, doneOrder, ready, waitq, last>>
  /\ UNCHANGED <<resolveVars, assembleVars, cursorVars>>

\* as_completed is exhausted: next iteration of the outer `while True`
C_BatchDone ==
  /\ cpc = "as_completed"
  /\ \A id \in Range(batch) : st[id] = "consumed"
  /\ cpc' = "drain"
  /\ batch' = <<>>
  /\ bpops' = 0
  /\ UNCHANGED <<ppc, perr, cur_page, pageNo, discovered, toPush, queue, st, submits,
                 pushes, doneOrder, ready, waitq, last>>
  /\ UNCHANGED <<resolveVars, assembleVars, cursorVars>>

Consumer == C_GetNoWait \/ C_Empty \/ C_GetBlocking \/ C_Process \/ C_Resume \/ C_BatchDone

Next == Producer \/ F_Complete \/ Consumer

Spec == Init /\ [][Next]_vars

\* Threads are scheduled, submitted fetches finish and the caller keeps
\* asking for articles.
FairSpec == Spec /\ WF_vars(Producer) /\ WF_vars(F_Complete) /\ WF_vars(Consumer)

TypeOK ==
  /\ ppc \in {"next_cursor", "put", "dead"}
  /\ cpc \in {"drain", "get", "as_completed", "yielded", "raised"}
  /\ pageNo \in 0..MaxPages
  /\ Range(queue) \subseteq Ids /\ Range(batch) \subseteq Ids /\ Range(toPush) \subseteq Ids


\* ------------------------------------------- link resolution on its own
ResolveInit ==
  /\ PipeInit /\ IdleAssemble /\ IdleCursor
  /\ rlink \in Links /\ rbase \in Bases /\ rres = Unset

\* sub_link.resolve_from(parsed_base_url) in LinksOnPage.from_article_html
R_Resolve ==
  /\ rres = Unset
  /\ rlink # Unset
  /\ rres' = resolve_from(rlink, rbase)
  /\ UNCHANGED <<rlink, rbase, pipeVars, assembleVars, cursorVars>>

SpecResolve == ResolveInit /\ [][R_Resolve]_vars

\* ---------------------------------------------- the assembler on its own
AssembleInit ==
  /\ PipeInit /\ IdleResolve /\ IdleCursor
  /\ aresp \in AllResponses /\ ares = Unset

\* NewsArticle.from_response(resp)
A_Assemble ==
  /\ ares = Unset
  /\ aresp # NoResult
  /\ ares' = from_response(aresp)
  /\ UNCHANGED <<aresp, pipeVars, resolveVars, cursorVars>>

SpecAssemble == AssembleInit /\ [][A_Assemble]_vars


\* ================================================================ claims
InFlight == {id \in Ids : st[id] = "pending"}

\* C1: when the producer's page fetch fails or the page's next-page locator
\* is missing or malformed, the failure reaches the consumer: the consumer
\* is never left blocked in get() on an empty queue that the ended
\* producer thread will never fill again.
C1_ProducerFailureReachesConsumer ==
  ~(ppc = "dead" /\ cpc = "get" /\ queue = <<>>)

\* C2: the number of futures put on the queue and not yet taken from it
\* never exceeds maxsize.
C2_QueueBounded == Len(queue) <= maxsize

C2_Witness == Len(queue) = maxsize /\ ppc = "put" /\ toPush # <<>>

C3_ExactlyOnce ==
  \A id \in Ids :
    /\ submits[id] = IF id <= discovered THEN 1 ELSE 0
    /\ pushes[id] <= submits[id]
    /\ pushes[id] = 0 <=> (id > discovered \/ id \in Range(toPush))
    /\ Count(toPush, id) + Count(queue, id) <= 1

C4_InFlightBounded == Cardinality(InFlight) <= maxsize

\* C5: a fetch that failed with SSLError yields no article and raises
\* nothing: the drainer skips it and stays in its loop.
C5_SSLErrorSkipped ==
  last.res.kind = "SSLError" =>
    /\ last.verdict = "skip_ssl"
    /\ cpc \notin {"yielded", "raised"}
    /\ st[last.id] = "consumed"

C5_Witness ==
  /\ last.res.kind = "SSLError"
  /\ cpc = "as_completed"
  /\ \E id \in Range(batch) : st[id] # "consumed"

\* C6: a response whose final url has twitter.com as its host is never
\* passed to from_response and never yielded.
C6_PlatformHostDiscarded ==
  (last.res.kind = "Response" /\ last.res.host = TWITTER_DOMAIN) =>
    /\ last.verdict = "skip_domain"
    /\ cpc \notin {"yielded", "raised"}

C6_Witness ==
  /\ last.res.kind = "Response"
  /\ last.res.host = TWITTER_DOMAIN
  /\ last.verdict = "skip_domain"

\* A response that has everything an article record needs.
HasRequiredFields(resp) ==
  /\ resp.ctype # None /\ StartsWith(resp.ctype, HTML_PREFIX)
  /\ resp.title # "" /\ resp.title # PAGE_NOT_FOUND_TITLE_MARKER
  /\ resp.authors # <<>>
  /\ (resp.publish_date # 0 \/ resp.published_time # "")
  /\ resp.text # ""

\* C7: from_response never raises; it returns an article exactly for the
\* responses with an HTML content type and all required fields, and the
\* article has a title other than the marker, authors, a date and a text.
C7_AssemblerAcceptsExactlyValid ==
  ares # Unset =>
    /\ ares.tag # "raise"
    /\ ares.tag = "NewsArticle" <=> HasRequiredFields(aresp)
    /\ ares.tag = "NewsArticle" =>
         /\ ares.title # "" /\ ares.title # PAGE_NOT_FOUND_TITLE_MARKER
         /\ ares.authors # <<>>
         /\ ares.publish_date # 0
         /\ ares.text # ""

OneLeadingSlash(p) == IF StartsWith(p, SLASH) THEN p ELSE SLASH \o p

BarePath(l) ==
  l.scheme = None /\ l.netloc = None /\ l.path # None /\ ~StartsWith(l.path, SLASH)

\* C8: a link with no scheme, no host and a path not starting with '/'
\* resolves to the base's scheme and host and the base path's directory
\* joined with the link path, with exactly one leading '/'.
C8_BarePathJoinedToBaseDirectory ==
  (rres # Unset /\ BarePath(rlink)) =>
    /\ rres.tag = "ResolvedSubLink"
    /\ rres.scheme = rbase.scheme
    /\ rres.netloc = rbase.netloc
    /\ rres.path = OneLeadingSlash(join(dirname(rbase.path), rlink.path))

EffectiveScheme(l, b) ==
  IF l.scheme # None THEN l.scheme
  ELSE IF l.netloc = None THEN b.scheme
  ELSE HTTPS

\* C9: a link whose effective scheme is not exactly http or https is
\* rejected.
C9_NonHttpSchemeRejected ==
  (rres # Unset /\ EffectiveScheme(rlink, rbase) \notin {HTTP, HTTPS}) =>
    rres.tag = "None"

C10_BatchShape ==
  /\ bpops <= 1
  /\ cpc = "get" => (batch = <<>> /\ bpops = 0)
  /\ cpc = "drain" => bpops = 0
  /\ cpc \in {"as_completed", "yielded", "raised"} =>
       /\ batch # <<>>
       /\ bpops = 1 <=> Len(batch) - bpops = 0

\* C10: each iteration first takes every future available without
\* blocking and leaves the non-blocking drain only on an empty queue; it
\* makes a blocking get exactly when the drain took nothing, and then one;
\* the batch handed to as_completed is never empty.
C10_DrainPolicy ==
  /\ []C10_BatchShape
  /\ [][/\ (cpc = "drain" /\ cpc' # "drain") => queue = <<>>
        /\ bpops' > bpops => (cpc = "get" /\ batch = <<>> /\ Len(batch') = 1)]_vars

C10_Witness ==
  /\ cpc = "as_completed" /\ bpops = 1 /\ Len(batch) = 1
  /\ last.id # 0


\* C11: results pages are fetched one at a time: whenever the fetch of a
\* further page begins, every link of the pages before it has been
\* submitted and put on the queue, and at most one page is fetched per step.
C11_PagesOneAtATime ==
  [][pageNo' # pageNo =>
       /\ pageNo' = pageNo + 1
       /\ ppc = "next_cursor" /\ toPush = <<>>
       /\ \A id \in Ids : id <= discovered => (submits[id] = 1 /\ pushes[id] = 1)]_vars

C11_Witness ==
  /\ pageNo = 2
  /\ discovered = 4
  /\ toPush = <<3, 4>>
  /\ pushes[1] = 1 /\ pushes[2] = 1


ProducerSuspended == ppc = "put" /\ Len(queue) >= maxsize

C12_Suspension ==
  /\ ppc = "put" => (ENABLED P_Put <=> Len(queue) < maxsize)
  /\ cpc = "drain" => ENABLED (C_GetNoWait \/ C_Empty)
  /\ cpc = "get" => (batch = <<>> /\ (ENABLED C_GetBlocking <=> queue # <<>>))

\* C12: the producer is suspended exactly in put() on a queue holding
\* maxsize futures and, while suspended, puts nothing, fetches no page and
\* submits no fetch; the consumer's queue operations never wait on a full
\* queue, and it waits on the queue only in the blocking get(), which it
\* reaches with an empty batch and which waits exactly while the queue is
\* empty.
C12_Backpressure ==
  /\ []C12_Suspension
  /\ [][ProducerSuspended =>
          /\ ppc' = ppc /\ toPush' = toPush /\ pushes' = pushes
          /\ pageNo' = pageNo /\ submits' = submits /\ discovered' = discovered
          /\ Len(queue') <= Len(queue)]_vars

C12_Witness ==
  /\ ppc = "put" /\ Len(queue) = maxsize /\ toPush # <<>>
  /\ cpc = "as_completed"
  /\ \E id \in Range(batch) : st[id] = "pending"


\* The drainer handles future id in this step.
Processed(id) == st[id] = "done" /\ st'[id] = "consumed"

IndexOf(s, x) == CHOOSE i \in 1..Len(s) : s[i] = x

\* a completed before b
CompletedBefore(a, b) ==
  /\ a \in Range(doneOrder) /\ b \in Range(doneOrder)
  /\ IndexOf(doneOrder, a) < IndexOf(doneOrder, b)

\* C13 (as claimed): within a batch, a future is handled only when no other
\* future of the batch that completed before it is still unhandled, also
\* when both had completed before as_completed was called.
C13_CompletionOrderInBatch ==
  [][\A id \in Ids : Processed(id) =>
       \A a \in Range(batch) \ {id} : ~CompletedBefore(a, id)]_vars

\* C13 (amended): a future of the batch that completed after as_completed
\* was called is handled only when no other future of the batch that
\* completed before it is still unhandled.
C13_CompletionOrderWhileWaiting ==
  [][\A id \in Ids : (Processed(id) /\ id \notin ready) =>
       /\ id \in Range(batch)
       /\ \A a \in Range(batch) \ {id} : ~CompletedBefore(a, id)]_vars

C13_Witness ==
  /\ cpc = "as_completed" /\ ready = {} /\ Len(waitq) >= 2
  /\ CompletedBefore(waitq[1], waitq[2])


\* str.endswith
EndsWith(s, p) == Len(s) >= Len(p) /\ SubSeq(s, Len(s) - Len(p) + 1, Len(s)) = p

\* The host is twitter.com or one of its subdomains.
OnPlatform(host) == host = TWITTER_DOMAIN \/ EndsWith(host, <<".">> \o TWITTER_DOMAIN)

\* C15: a completed fetch that delivered a response whose final url's host
\* is not on the platform's domain is passed to from_response; the drainer
\* discards a response for its url only when the host is on the platform's
\* domain.
C15_OnlyPlatformHostsDiscarded ==
  last.res.kind = "Response" =>
    /\ ~OnPlatform(last.res.host) => last.verdict \in {"yield", "rejected", "raise_assemble"}
    /\ last.verdict = "skip_domain" => OnPlatform(last.res.host)


\* Nothing was taken from the queue in this step.
NoPop == Len(queue') >= Len(queue) /\ SubSeq(queue', 1, Len(queue)) = queue

\* C16: a fetch that failed with a transport exception other than SSLError
\* is raised out of the generator; from then on the generator handles no
\* future and takes nothing from the queue, and once the queue holds
\* maxsize futures no put ever succeeds again: a producer that is in put()
\* stays there.
C16_TransportFailureEndsSequence ==
  /\ [](last.res.kind = "ConnectionError" =>
          (last.verdict = "raise_transport" /\ cpc = "raised"))
  /\ [][cpc = "raised" =>
          /\ cpc' = "raised" /\ batch' = batch /\ last' = last
          /\ \A id \in Ids : st'[id] = "consumed" <=> st[id] = "consumed"
          /\ NoPop
          /\ Len(queue) >= maxsize =>
               /\ queue' = queue /\ pushes' = pushes
               /\ ppc = "put" => (ppc' = "put" /\ toPush' = toPush)]_vars

C16_Witness ==
  /\ last.res.kind = "ConnectionError" /\ cpc = "raised"
  /\ Len(queue) = maxsize /\ ppc = "put" /\ toPush # <<>>


\* The future was put on the queue and has been taken from it.
Popped(id) == pushes[id] >= 1 /\ id \notin Range(queue)

\* The generator is inside as_completed with a future of the batch unhandled.
BatchOpen ==
  /\ cpc \in {"as_completed", "yielded"}
  /\ \E id \in Range(batch) : st[id] # "consumed"

\* C17: the drainer takes a future from the queue only when every future
\* it took in earlier iterations has been handled, and handles only
\* futures of its current batch; while a future of the batch is unhandled
\* (for instance because its fetch never completes) the batch stays, nothing
\* is taken from the queue, and once the queue holds maxsize futures no put
\* succeeds.
C17_BatchBarrier ==
  [][/\ ~NoPop =>
          /\ cpc \in {"drain", "get"}
          /\ \A id \in Ids : (Popped(id) /\ id \notin Range(batch)) => st[id] = "consumed"
     /\ \A id \in Ids : Processed(id) => id \in Range(batch)
     /\ BatchOpen =>
          /\ NoPop
          /\ batch' = batch
          /\ Len(queue) >= maxsize => (queue' = queue /\ pushes' = pushes)]_vars

C17_Witness ==
  /\ cpc = "as_completed"
  /\ \E id \in Range(batch) : st[id] = "pending"
  /\ \E id \in Range(queue) : st[id] = "done"
  /\ Len(queue) = maxsize /\ ppc = "put"


\* Every results-page fetch succeeds with a valid locator and no link fetch
\* fails with a transport exception other than SSLError.
C18_Assumptions ==
  /\ [](ppc # "dead")
  /\ [](last.verdict # "raise_transport")

AllQueuedHandled == \A id \in Ids : pushes[id] >= 1 => st[id] = "consumed"

\* C18: under those assumptions and fair scheduling, the producer is never
\* blocked on a full queue while the consumer is blocked on an empty one,
\* and every future put on the queue is eventually taken and handled.
C18_NoDeadlock ==
  C18_Assumptions =>
    /\ [](~(ProducerSuspended /\ cpc = "get" /\ queue = <<>>))
    /\ []<>AllQueuedHandled


\* ------------------------------------- one results page, on its own
\* The pages from_base_url is exercised with.
CursorPages ==
  {[fetched |-> FALSE, next |-> NoButton, hrefs |-> <<>>]} \cup
  [fetched : {TRUE}, next : NextHrefs, hrefs : SeqsUpTo(TweetHrefs, MaxLinks + 1)]

CursorInit ==
  /\ PipeInit /\ IdleResolve /\ IdleAssemble
  /\ epage \in CursorPages /\ ecursor = Unset /\ esubmitted = <<>>

\* cursor = TwitterSearchCursor.from_base_url(cur_page)
E_FromBaseUrl ==
  /\ epage # Unset
  /\ ecursor = Unset
  /\ ecursor' = from_base_url(epage)
  /\ UNCHANGED <<epage, esubmitted, pipeVars, resolveVars, assembleVars>>

\* cursor.t_co_urls.scramble_the_jets() on the cursor that was yielded:
\* the urls of the GETs submitted, in the order of the futures
E_Scramble ==
  /\ ecursor # Unset
  /\ ecursor.err = "none"
  /\ esubmitted = <<>>
  /\ LET futures == scramble_the_jets(ecursor.t_co_urls, 0) IN
       /\ futures # <<>>
       /\ esubmitted' = [k \in 1..Len(futures) |-> ecursor.t_co_urls[futures[k]]]
  /\ UNCHANGED <<epage, ecursor, pipeVars, resolveVars, assembleVars>>

SpecCursor == CursorInit /\ [][E_FromBaseUrl \/ E_Scramble]_vars

\* The fetched page has no next-page href or one without the prefix.
BadLocator(page) == page.fetched /\ ~StartsWith(page.next, SEARCH_PREFIX)

\* C19: the locator is extracted before the links: for a fetched page with
\* a missing or malformed locator, from_base_url ends with the locator's
\* exception (whatever the page's links are), returns no cursor, and no
\* GET is ever submitted for a link of that page.
C19_LocatorBeforeLinks ==
  BadLocator(epage) =>
    /\ esubmitted = <<>>
    /\ ecursor # Unset =>
         /\ ecursor.err = IF epage.next = NoButton THEN "TypeError" ELSE "AssertionError"
         /\ ecursor.t_co_urls = <<>>

C19_Witness ==
  /\ ecursor # Unset
  /\ epage.fetched /\ epage.next = NoButton
  /\ \E i \in 1..Len(epage.hrefs) : StartsWith(epage.hrefs[i], TWEET_SHORTENED_LINK_BASE)
  /\ \E i \in 1..Len(epage.hrefs) :
       ~StartsWith(epage.hrefs[i], SLASH) /\ ~StartsWith(epage.hrefs[i], TWEET_SHORTENED_LINK_BASE)
  /\ ecursor.err = "TypeError"

\* The hrefs of the page that do not start with '/'.
External(hrefs) == SelectSeq(hrefs, LAMBDA h : ~StartsWith(h, SLASH))

HasForeignHref(page) ==
  \E i \in 1..Len(page.hrefs) :
    ~StartsWith(page.hrefs[i], SLASH) /\ ~StartsWith(page.hrefs[i], TWEET_SHORTENED_LINK_BASE)

\* C20: every submitted GET targets a url starting with 'https://t.co/';
\* for a fetched page with a valid locator, an href that starts neither
\* with '/' nor with 'https://t.co/' makes from_base_url end with an
\* AssertionError (no cursor, no GET submitted for the page, the producer
\* thread ends); otherwise the cursor holds exactly the hrefs not starting
\* with '/', and those are the GETs submitted.
C20_OnlyShortenedLinksSubmitted ==
  /\ \A i \in 1..Len(esubmitted) : StartsWith(esubmitted[i], TWEET_SHORTENED_LINK_BASE)
  /\ (ecursor # Unset /\ epage.fetched /\ ~BadLocator(epage)) =>
       IF HasForeignHref(epage)
         THEN ecursor.err = "AssertionError" /\ ecursor.t_co_urls = <<>> /\ esubmitted = <<>>
         ELSE /\ ecursor.err = "none"
              /\ ecursor.t_co_urls = External(epage.hrefs)
              /\ esubmitted \in {<<>>, External(epage.hrefs)}

C20_Witness ==
  /\ ecursor # Unset
  /\ epage.fetched /\ ~BadLocator(epage)
  /\ HasForeignHref(epage)
  /\ \E i \in 1..Len(epage.hrefs) : StartsWith(epage.hrefs[i], TWEET_SHORTENED_LINK_BASE)
  /\ ecursor.err = "AssertionError"

====
